---- MODULE Spec2Model ----
(***************************************************************************)
(* A state-machine model of the catalog-then-replay engine of              *)
(* camera-mover-sdk: Summary::load_from_mcap (footer check, summary scan,  *)
(* schema/channel catalog), the replay pass of main (advance_reader over   *)
(* the whole file, FileStream::handle_message, TimeTracker) and the loop   *)
(* controller of main (done flag, looping, clear_session, stop).           *)
(*                                                                         *)
(* Time is in nanoseconds.  A file is given by the bytes of its tail and   *)
(* by the records a LinearReader decodes from its summary section and from *)
(* its data section.  The file is assumed to exist and to be readable:     *)
(* File::open and file.read do not fail in this model.                     *)
(***************************************************************************)
EXTENDS Integers, Sequences, FiniteSets, TLC

VARIABLES
    file,          \* the input file: [tail, summary, data]
    looping,       \* args.loop
    pc,            \* position of the main thread
    done,          \* the cancellation flag (Arc<AtomicBool>)
    loadResult,    \* outcome of Summary::load_from_mcap
    schemas,       \* Summary.schemas : id -> Schema
    channels,      \* Summary.channels: id -> channel sink handle
    reader,        \* the LinearReader in use: [pos, need]
    time_tracker,  \* FileStream.time_tracker: <<>> (None) or <<tracker>>
    inflight,      \* <<>>, or <<the rest of handle_message>> while it sleeps
    elapsed,       \* time_tracker.start.elapsed() as last observed
    sinks,         \* publishing collaborator: sinks built by ChannelBuilder
    sent,          \* publishing collaborator: what the current pass emitted
    passes,        \* number of replay passes started
    resets,        \* number of clear_session calls
    stopped        \* server.stop() was called

vars == <<file, looping, pc, done, loadResult, schemas, channels, reader,
          time_tracker, inflight, elapsed, sinks, sent, passes, resets, stopped>>

(***************************************************************************)
(* Bounds of the model.                                                    *)
(***************************************************************************)
MaxSummary == 3     \* records in a summary section
MaxData == 2        \* records in a data section
MaxPasses == 2      \* replay passes of one run

(***************************************************************************)
(* Program constants.                                                      *)
(***************************************************************************)
NotifyIntervalNs == 16666666      \* 1_000_000_000 / 60
SleepThresholdNs == 1000          \* Duration::from_micros(1)
FooterTailLen == 28               \* SeekFrom::End(-28)

\* mcap::MAGIC, the 8 bytes 0x89 "MCAP0" \r \n
MAGIC == <<137, 77, 67, 65, 80, 48, 13, 10>>

(***************************************************************************)
(* Helpers: u64 arithmetic, byte strings, options, maps.                   *)
(***************************************************************************)
\* u64::saturating_sub / Duration::saturating_sub
SatSub(a, b) == IF a >= b THEN a - b ELSE 0

\* <[u8]>::ends_with
ends_with(buf, suffix) ==
    /\ Len(buf) >= Len(suffix)
    /\ SubSeq(buf, Len(buf) - Len(suffix) + 1, Len(buf)) = suffix

\* bytes::Buf::get_u64_le on a slice: the first 8 bytes, least significant first
RECURSIVE U64LEFrom(_, _)
U64LEFrom(buf, i) == IF i > 8 THEN 0 ELSE buf[i] + 256 * U64LEFrom(buf, i + 1)

\* mutant: reads the footer's second field, summary_offset_start
get_u64_le_SecondField(buf) == U64LEFrom(SubSeq(buf, 9, 16), 1)

get_u64_le(buf) == U64LEFrom(buf, 1)

\* the writer's side of the footer: n as k little-endian bytes
RECURSIVE le_bytes(_, _)
le_bytes(n, k) == IF k = 0 THEN <<>> ELSE <<n % 256>> \o le_bytes(n \div 256, k - 1)

BoundedSeq(S, n) == UNION {[1..k -> S] : k \in 0..n}

EmptyMap == <<>>

(***************************************************************************)
(* Records of the container format.                                        *)
(***************************************************************************)
SchemaRec(id, name) == [type |-> "Schema", id |-> id, name |-> name]
ChannelRec(id, topic, schema_id) ==
    [type |-> "Channel", id |-> id, topic |-> topic, schema_id |-> schema_id]
MessageRec(channel_id, sequence, log_time) ==
    [type |-> "Message", channel_id |-> channel_id, sequence |-> sequence,
     log_time |-> log_time]
OtherRec == [type |-> "Other"]     \* Header, Footer, Statistics, ...
BadRec == [type |-> "Bad"]         \* a frame the decoder or parse_record rejects

(***************************************************************************)
(* The input files of the model.                                           *)
(***************************************************************************)
SummaryStarts == {0, 256, 300}
OffsetStarts == {0, 44}
Magics == {MAGIC, [MAGIC EXCEPT ![8] = 11], [MAGIC EXCEPT ![1] = 0]}

\* the last 28 bytes of a file: footer fields summary_start,
\* summary_offset_start, summary_crc, then the trailing magic
TailOf(summary_start, offset_start, magic) ==
    le_bytes(summary_start, 8) \o le_bytes(offset_start, 8) \o le_bytes(0, 4) \o magic

\* every tail above, and a file of 8 bytes that holds the magic alone
Tails == {TailOf(s, o, m) : s \in SummaryStarts, o \in OffsetStarts, m \in Magics}
         \cup {MAGIC}

GoodTail == TailOf(300, 44, MAGIC)

SummaryRecords ==
    {SchemaRec(0, "a"), SchemaRec(1, "a"), SchemaRec(1, "b"), SchemaRec(2, "a"),
     ChannelRec(1, "t1", 1), ChannelRec(1, "t2", 0), ChannelRec(2, "t1", 2),
     ChannelRec(0, "t2", 1), OtherRec, BadRec}

LogTimes == {0, 500, 16666666, 100000000, 250000000}

DataRecords ==
    {MessageRec(c, 0, t) : c \in {1, 2}, t \in LogTimes}
    \cup {SchemaRec(2, "b"), ChannelRec(2, "t2", 0), BadRec}

\* one schema, one channel
BaseSummary == <<SchemaRec(1, "a"), ChannelRec(1, "t1", 1)>>

\* one schema, one channel, three messages at 0, 100 ms and 250 ms
ScenarioFile ==
    [tail |-> GoodTail, summary |-> BaseSummary,
     data |-> <<MessageRec(1, 0, 0), MessageRec(1, 1, 100000000),
                MessageRec(1, 2, 250000000)>>]

TailFiles ==
    {[tail |-> t, summary |-> BaseSummary, data |-> <<MessageRec(1, 0, 100000000)>>] :
        t \in Tails}
SummaryFiles ==
    {[tail |-> GoodTail, summary |-> s, data |-> <<>>] :
        s \in BoundedSeq(SummaryRecords, MaxSummary)}
DataFiles ==
    {[tail |-> GoodTail, summary |-> BaseSummary, data |-> d] :
        d \in BoundedSeq(DataRecords, MaxData)}

\* wall-clock time that passes between two observations of the clock
Lags == {0, 30000000}

(***************************************************************************)
(* The frame decoder: LinearReader and advance_reader.                     *)
(***************************************************************************)
NewReader == [pos |-> 0, need |-> TRUE]

\* what a full scan from offset zero decodes: the data section, then the
\* summary section
FullScan(f) == f.data \o f.summary

\* LinearReader::next_action on the record stream `stream`
next_action(rd, stream) ==
    IF rd.pos >= Len(stream) THEN "None"
    ELSE IF rd.need THEN "NeedMore"
    ELSE IF stream[rd.pos + 1].type = "Bad" THEN "Err"
    ELSE "GetRecord"

\* mutant: the NeedMore arm falls through into the GetRecord arm
advance_reader_FallThrough(rd, stream, buffered) ==
    LET action == next_action(rd, stream)
    IN IF action = "None"
       THEN [ret |-> "false", reader |-> rd, fed |-> 0, records |-> <<>>]
       ELSE IF action = "Err"
       THEN [ret |-> "err", reader |-> rd, fed |-> 0, records |-> <<>>]
       ELSE IF action = "NeedMore"
       THEN [ret |-> "true", reader |-> [pos |-> rd.pos + 1, need |-> ~buffered],
             fed |-> 1, records |-> <<stream[rd.pos + 1]>>]
       ELSE [ret |-> "true", reader |-> [pos |-> rd.pos + 1, need |-> ~buffered],
             fed |-> 0, records |-> <<stream[rd.pos + 1]>>]

\* advance_reader up to the call of handle_record: [ret, reader, fed, records].
\* ret is the value returned when the handler, if called, returns Ok; fed counts
\* the calls of file.read, records are the records handed to handle_record;
\* `buffered` tells whether the bytes of the record after this one are
\* already in the reader
advance_reader(rd, stream, buffered) ==
    LET action == next_action(rd, stream)
    IN IF action = "None"
       THEN [ret |-> "false", reader |-> rd, fed |-> 0, records |-> <<>>]
       ELSE IF action = "Err"
       THEN [ret |-> "err", reader |-> rd, fed |-> 0, records |-> <<>>]
       ELSE IF action = "NeedMore"
       THEN [ret |-> "true", reader |-> [rd EXCEPT !.need = FALSE], fed |-> 1,
             records |-> <<>>]
       ELSE [ret |-> "true", reader |-> [pos |-> rd.pos + 1, need |-> ~buffered],
             fed |-> 0, records |-> <<stream[rd.pos + 1]>>]

(***************************************************************************)
(* Summary: the catalog loader.                                            *)
(***************************************************************************)
\* mutant: the trailing magic is not validated
FooterCheck_NoMagic(tail) ==
    IF Len(tail) < FooterTailLen THEN "MalformedContainer"
    ELSE IF get_u64_le(tail) = 0 THEN "MissingIndex"
    ELSE "Ok"

\* the checks of load_from_mcap on the file's tail
FooterCheck(tail) ==
    IF Len(tail) < FooterTailLen THEN "MalformedContainer"
    ELSE IF ~ends_with(tail, MAGIC) THEN "MalformedContainer"
    ELSE IF get_u64_le(tail) = 0 THEN "MissingIndex"
    ELSE "Ok"

\* mutant: a later Schema record replaces the cached one
handle_schema_Overwrite(sch, header) ==
    IF header.id = 0 THEN [ok |-> FALSE, schemas |-> sch]
    ELSE [ok |-> TRUE,
          schemas |-> (header.id :> [id |-> header.id, name |-> header.name]) @@ sch]

\* mutant: id 0 is cached like any other id
handle_schema_AcceptZero(sch, header) ==
    [ok |-> TRUE,
     schemas |-> IF header.id \in DOMAIN sch THEN sch
                 ELSE sch @@ (header.id :> [id |-> header.id, name |-> header.name])]

\* Summary::handle_schema: [ok, schemas]
handle_schema(sch, header) ==
    IF header.id = 0 THEN [ok |-> FALSE, schemas |-> sch]
    ELSE [ok |-> TRUE,
          schemas |-> IF header.id \in DOMAIN sch THEN sch
                      ELSE sch @@ (header.id :> [id |-> header.id, name |-> header.name])]

\* mutant: the channel map is keyed by the record's schema_id
handle_channel_KeyedBySchema(sch, chn, record, buildOk) ==
    IF record.schema_id \in DOMAIN chn THEN [ok |-> TRUE, channels |-> chn, built |-> <<>>]
    ELSE LET schema == IF record.schema_id \in DOMAIN sch
                       THEN <<sch[record.schema_id]>> ELSE <<>>
             channel == [topic |-> record.topic, schema |-> schema]
         IN IF buildOk
            THEN [ok |-> TRUE, channels |-> chn @@ (record.schema_id :> channel),
                  built |-> <<channel>>]
            ELSE [ok |-> FALSE, channels |-> chn, built |-> <<>>]

\* mutant: the schema is looked up under the channel's own id
handle_channel_SchemaByChannelId(sch, chn, record, buildOk) ==
    IF record.id \in DOMAIN chn THEN [ok |-> TRUE, channels |-> chn, built |-> <<>>]
    ELSE LET schema == IF record.id \in DOMAIN sch THEN <<sch[record.id]>> ELSE <<>>
             channel == [topic |-> record.topic, schema |-> schema]
         IN IF buildOk
            THEN [ok |-> TRUE, channels |-> chn @@ (record.id :> channel),
                  built |-> <<channel>>]
            ELSE [ok |-> FALSE, channels |-> chn, built |-> <<>>]

\* Summary::handle_channel: [ok, channels, built]; buildOk is the outcome of
\* ChannelBuilder::build
handle_channel(sch, chn, record, buildOk) ==
    IF record.id \in DOMAIN chn THEN [ok |-> TRUE, channels |-> chn, built |-> <<>>]
    ELSE LET schema == IF record.schema_id \in DOMAIN sch
                       THEN <<sch[record.schema_id]>> ELSE <<>>
             channel == [topic |-> record.topic, schema |-> schema]
         IN IF buildOk
            THEN [ok |-> TRUE, channels |-> chn @@ (record.id :> channel),
                  built |-> <<channel>>]
            ELSE [ok |-> FALSE, channels |-> chn, built |-> <<>>]

\* Summary::handle_record: [result, schemas, channels, built]
Summary_handle_record(sch, chn, record, buildOk) ==
    IF record.type = "Schema"
    THEN LET r == handle_schema(sch, record)
         IN [result |-> IF r.ok THEN "Ok" ELSE "InvalidCatalogEntry",
             schemas |-> r.schemas, channels |-> chn, built |-> <<>>]
    ELSE IF record.type = "Channel"
    THEN LET r == handle_channel(sch, chn, record, buildOk)
         IN [result |-> IF r.ok THEN "Ok" ELSE "ChannelBuildError",
             schemas |-> sch, channels |-> r.channels, built |-> r.built]
    ELSE [result |-> "Ok", schemas |-> sch, channels |-> chn, built |-> <<>>]

\* mutant: main goes on with whatever the load left behind
MainAfterLoad_Continue(result) == "loop_head"

\* main: `Summary::load_from_mcap(&args.file).unwrap()`
MainAfterLoad(result) == IF result = "Ok" THEN "loop_head" ELSE "panicked"

(***************************************************************************)
(* TimeTracker.                                                            *)
(***************************************************************************)
\* mutant: the last-notified time starts at the origin
TimeTracker_start_LastAtOrigin(offset_ns) ==
    [offset_ns |-> offset_ns, now_ns |-> offset_ns, notify_last |-> offset_ns]

TimeTracker_start(offset_ns) ==
    [offset_ns |-> offset_ns, now_ns |-> offset_ns, notify_last |-> 0]

\* mutant: the target is counted from the previous message, not from the origin
sleep_until_SincePrevious(tt, el, offset_ns) ==
    LET abs == SatSub(offset_ns, tt.now_ns)
        delta == SatSub(abs, el)
    IN [tt |-> [tt EXCEPT !.now_ns = offset_ns],
        slept |-> IF delta >= SleepThresholdNs THEN delta ELSE 0]

\* mutant: any positive remainder is slept, however small
sleep_until_NoThreshold(tt, el, offset_ns) ==
    LET abs == SatSub(offset_ns, tt.offset_ns)
        delta == SatSub(abs, el)
    IN [tt |-> [tt EXCEPT !.now_ns = offset_ns], slept |-> delta]

\* TimeTracker::sleep_until with start.elapsed() = el: [tt, slept]
sleep_until(tt, el, offset_ns) ==
    LET abs == SatSub(offset_ns, tt.offset_ns)
        delta == SatSub(abs, el)
    IN [tt |-> [tt EXCEPT !.now_ns = offset_ns],
        slept |-> IF delta >= SleepThresholdNs THEN delta ELSE 0]

\* mutant: notify_last is not updated
notify_NoUpdate(tt) ==
    IF SatSub(tt.now_ns, tt.notify_last) >= NotifyIntervalNs
    THEN [tt |-> tt, ts |-> <<tt.now_ns>>]
    ELSE [tt |-> tt, ts |-> <<>>]

\* mutant: the interval is one second of recorded time
notify_EverySecond(tt) ==
    IF SatSub(tt.now_ns, tt.notify_last) >= 60 * NotifyIntervalNs
    THEN [tt |-> [tt EXCEPT !.notify_last = tt.now_ns], ts |-> <<tt.now_ns>>]
    ELSE [tt |-> tt, ts |-> <<>>]

\* TimeTracker::notify: [tt, ts] with ts = <<>> (None) or <<timestamp>>
notify(tt) ==
    IF SatSub(tt.now_ns, tt.notify_last) >= NotifyIntervalNs
    THEN [tt |-> [tt EXCEPT !.notify_last = tt.now_ns], ts |-> <<tt.now_ns>>]
    ELSE [tt |-> tt, ts |-> <<>>]

(***************************************************************************)
(* FileStream: the replay engine.                                          *)
(***************************************************************************)
\* what the server receives
TimeEvent(ts, at) == [kind |-> "time", ts |-> ts, at |-> at]
MsgEvent(header, at) ==
    [kind |-> "msg", channel_id |-> header.channel_id, sequence |-> header.sequence,
     log_time |-> header.log_time, at |-> at]

\* channel.log_with_meta on the sink of header.channel_id, if there is one
Forward(chn, header, at) ==
    IF header.channel_id \in DOMAIN chn THEN <<MsgEvent(header, at)>> ELSE <<>>

\* mutant: a message of a channel that is not in the catalog is an error
handle_message_StrictChannel(tracker, el, lag, chn, header) ==
    LET tt0 == IF tracker = <<>> THEN TimeTracker_start(header.log_time) ELSE tracker[1]
        el0 == IF tracker = <<>> THEN lag ELSE el + lag
        sl == sleep_until(tt0, el0, header.log_time)
        el1 == el0 + sl.slept
        nt == notify(sl.tt)
        bc == IF nt.ts # <<>> THEN <<TimeEvent(nt.ts[1], el1)>> ELSE <<>>
    IN [ok |-> header.channel_id \in DOMAIN chn, time_tracker |-> <<nt.tt>>,
        elapsed |-> el1, out |-> bc \o Forward(chn, header, el1),
        started |-> <<tt0>>,
        wait |-> [t |-> header.log_time, actual |-> el0, blocked |-> sl.slept]]

\* mutant: the message is forwarded before the clock is broadcast
handle_message_ForwardFirst(tracker, el, lag, chn, header) ==
    LET tt0 == IF tracker = <<>> THEN TimeTracker_start(header.log_time) ELSE tracker[1]
        el0 == IF tracker = <<>> THEN lag ELSE el + lag
        sl == sleep_until(tt0, el0, header.log_time)
        el1 == el0 + sl.slept
        nt == notify(sl.tt)
        bc == IF nt.ts # <<>> THEN <<TimeEvent(nt.ts[1], el1)>> ELSE <<>>
    IN [ok |-> TRUE, time_tracker |-> <<nt.tt>>, elapsed |-> el1,
        out |-> Forward(chn, header, el1) \o bc,
        started |-> <<tt0>>,
        wait |-> [t |-> header.log_time, actual |-> el0, blocked |-> sl.slept]]

\* mutant: a message of an unknown channel returns before the tracker is touched
handle_message_SkipUnknown(tracker, el, lag, chn, header) ==
    IF header.channel_id \notin DOMAIN chn
    THEN [ok |-> TRUE, time_tracker |-> tracker, elapsed |-> el, out |-> <<>>,
          started |-> tracker,
          wait |-> [t |-> header.log_time, actual |-> el, blocked |-> 0]]
    ELSE LET tt0 == IF tracker = <<>> THEN TimeTracker_start(header.log_time)
                    ELSE tracker[1]
             el0 == IF tracker = <<>> THEN lag ELSE el + lag
             sl == sleep_until(tt0, el0, header.log_time)
             el1 == el0 + sl.slept
             nt == notify(sl.tt)
             bc == IF nt.ts # <<>> THEN <<TimeEvent(nt.ts[1], el1)>> ELSE <<>>
         IN [ok |-> TRUE, time_tracker |-> <<nt.tt>>, elapsed |-> el1,
             out |-> bc \o Forward(chn, header, el1),
             started |-> <<tt0>>,
             wait |-> [t |-> header.log_time, actual |-> el0, blocked |-> sl.slept]]

\* FileStream::handle_message: [ok, time_tracker, elapsed, out, started, wait].
\* `lag` is the wall-clock time since the clock was last observed (since
\* Instant::now() of TimeTracker::start for a fresh tracker); thread::sleep
\* returns after exactly the requested duration, a later return is part of
\* the next lag.  `started` is the tracker when sleep_until is entered and
\* `wait` its call: the log_time asked for, start.elapsed() as read, and the
\* duration handed to thread::sleep (0: no sleep).
handle_message(tracker, el, lag, chn, header) ==
    LET tt0 == IF tracker = <<>> THEN TimeTracker_start(header.log_time) ELSE tracker[1]
        el0 == IF tracker = <<>> THEN lag ELSE el + lag
        sl == sleep_until(tt0, el0, header.log_time)
        el1 == el0 + sl.slept
        nt == notify(sl.tt)
        bc == IF nt.ts # <<>> THEN <<TimeEvent(nt.ts[1], el1)>> ELSE <<>>
    IN [ok |-> TRUE, time_tracker |-> <<nt.tt>>, elapsed |-> el1,
        out |-> bc \o Forward(chn, header, el1),
        started |-> <<tt0>>,
        wait |-> [t |-> header.log_time, actual |-> el0, blocked |-> sl.slept]]

\* FileStream::handle_record
FileStream_handle_record(tracker, el, lag, chn, record) ==
    IF record.type = "Message" THEN handle_message(tracker, el, lag, chn, record)
    ELSE [ok |-> TRUE, time_tracker |-> tracker, elapsed |-> el, out |-> <<>>,
          started |-> tracker, wait |-> [t |-> 0, actual |-> el, blocked |-> 0]]

(***************************************************************************)
(* Initial states.                                                         *)
(***************************************************************************)
InitWith(f, l) ==
    /\ file = f
    /\ looping = l
    /\ pc = "load"
    /\ done = FALSE
    /\ loadResult = "none"
    /\ schemas = EmptyMap
    /\ channels = EmptyMap
    /\ reader = NewReader
    /\ time_tracker = <<>>
    /\ inflight = <<>>
    /\ elapsed = 0
    /\ sinks = <<>>
    /\ sent = <<>>
    /\ passes = 0
    /\ resets = 0
    /\ stopped = FALSE

Init ==
    \/ \E f \in TailFiles \cup DataFiles \cup {ScenarioFile}, l \in BOOLEAN : InitWith(f, l)
    \/ \E f \in SummaryFiles : InitWith(f, FALSE)

(***************************************************************************)
(* Summary::load_from_mcap, and main's unwrap of its result.               *)
(***************************************************************************)
\* lines 59-87: open, read the tail, check it, seek, create reader and summary
LoadFooter ==
    /\ pc = "load"
    /\ LET r == FooterCheck(file.tail)
       IN IF r = "Ok"
          THEN /\ pc' = "load_summary"
               /\ reader' = NewReader
               /\ schemas' = EmptyMap
               /\ channels' = EmptyMap
               /\ UNCHANGED loadResult
          ELSE /\ loadResult' = r
               /\ pc' = MainAfterLoad(r)
               /\ UNCHANGED <<reader, schemas, channels>>
    /\ UNCHANGED <<file, inflight, looping, done, time_tracker, elapsed, sinks, sent, passes,
                   resets, stopped>>

\* advance_reader, ReadAction::NeedMore
LoadNeedMore ==
    /\ pc = "load_summary"
    /\ next_action(reader, file.summary) = "NeedMore"
    /\ reader' = advance_reader(reader, file.summary, FALSE).reader
    /\ UNCHANGED <<file, inflight, looping, pc, done, loadResult, schemas, channels,
                   time_tracker, elapsed, sinks, sent, passes, resets, stopped>>

\* advance_reader, ReadAction::GetRecord, and Summary::handle_record
LoadRecord ==
    /\ pc = "load_summary"
    /\ next_action(reader, file.summary) = "GetRecord"
    /\ \E buildOk \in BOOLEAN, buffered \in BOOLEAN :
        LET a == advance_reader(reader, file.summary, buffered)
            r == Summary_handle_record(schemas, channels, a.records[1], buildOk)
        IN /\ reader' = a.reader
           /\ schemas' = r.schemas
           /\ channels' = r.channels
           /\ sinks' = sinks \o r.built
           /\ IF r.result = "Ok"
              THEN UNCHANGED <<pc, loadResult>>
              ELSE /\ loadResult' = r.result
                   /\ pc' = MainAfterLoad(r.result)
    /\ UNCHANGED <<file, inflight, looping, done, time_tracker, elapsed, sent, passes,
                   resets, stopped>>

\* advance_reader: the decoder or parse_record reports an error
LoadDecodeError ==
    /\ pc = "load_summary"
    /\ next_action(reader, file.summary) = "Err"
    /\ loadResult' = "DecodeError"
    /\ pc' = MainAfterLoad("DecodeError")
    /\ UNCHANGED <<file, inflight, looping, done, schemas, channels, reader, time_tracker,
                   elapsed, sinks, sent, passes, resets, stopped>>

\* advance_reader returns false: load_from_mcap returns Ok(summary)
LoadReturn ==
    /\ pc = "load_summary"
    /\ next_action(reader, file.summary) = "None"
    /\ loadResult' = "Ok"
    /\ pc' = MainAfterLoad("Ok")
    /\ UNCHANGED <<file, inflight, looping, done, schemas, channels, reader, time_tracker,
                   elapsed, sinks, sent, passes, resets, stopped>>

(***************************************************************************)
(* main: the loop controller and the replay pass.                          *)
(***************************************************************************)
\* `while !done` is false: server.stop() and the end of main
MainExit ==
    /\ pc = "loop_head"
    /\ done
    /\ pc' = "exited"
    /\ stopped' = TRUE
    /\ UNCHANGED <<file, inflight, looping, done, loadResult, schemas, channels, reader,
                   time_tracker, elapsed, sinks, sent, passes, resets>>

\* mutant: the outer loop does not test the flag
PassStart_IgnoreDone ==
    /\ pc = "loop_head"
    /\ passes < MaxPasses
    /\ pc' = "pass"
    /\ passes' = passes + 1
    /\ time_tracker' = <<>>
    /\ elapsed' = 0
    /\ reader' = NewReader
    /\ sent' = <<>>
    /\ UNCHANGED <<file, inflight, looping, done, loadResult, schemas, channels, sinks,
                   resets, stopped>>

\* mutant: the FileStream, and its tracker, outlive the pass
PassStart_KeepTracker ==
    /\ pc = "loop_head"
    /\ ~done
    /\ passes < MaxPasses
    /\ pc' = "pass"
    /\ passes' = passes + 1
    /\ reader' = NewReader
    /\ sent' = <<>>
    /\ UNCHANGED <<file, inflight, looping, done, loadResult, schemas, channels, sinks,
                   resets, stopped, time_tracker, elapsed>>

\* mutant: the reader of the previous pass is reused where it stopped
PassStart_KeepReader ==
    /\ pc = "loop_head"
    /\ ~done
    /\ passes < MaxPasses
    /\ pc' = "pass"
    /\ passes' = passes + 1
    /\ time_tracker' = <<>>
    /\ elapsed' = 0
    /\ sent' = <<>>
    /\ UNCHANGED <<file, inflight, looping, done, loadResult, schemas, channels, sinks,
                   resets, stopped, reader>>

\* `while !done` is true: a new FileStream, file handle and LinearReader
PassStart ==
    /\ pc = "loop_head"
    /\ ~done
    /\ passes < MaxPasses
    /\ pc' = "pass"
    /\ passes' = passes + 1
    /\ time_tracker' = <<>>
    /\ elapsed' = 0
    /\ reader' = NewReader
    /\ sent' = <<>>
    /\ UNCHANGED <<file, inflight, looping, done, loadResult, schemas, channels, sinks,
                   resets, stopped>>

\* inner `while !done && ...`: the flag is set
PassCancelled ==
    /\ pc = "pass"
    /\ done
    /\ pc' = "pass_end"
    /\ UNCHANGED <<file, inflight, looping, done, loadResult, schemas, channels, reader,
                   time_tracker, elapsed, sinks, sent, passes, resets, stopped>>

PassNeedMore ==
    /\ pc = "pass"
    /\ ~done
    /\ next_action(reader, FullScan(file)) = "NeedMore"
    /\ reader' = advance_reader(reader, FullScan(file), FALSE).reader
    /\ UNCHANGED <<file, inflight, looping, pc, done, loadResult, schemas, channels,
                   time_tracker, elapsed, sinks, sent, passes, resets, stopped>>

\* mutant: the replay pass catalogs the Schema and Channel records it meets
PassRecord_Recatalog ==
    /\ pc = "pass"
    /\ ~done
    /\ next_action(reader, FullScan(file)) = "GetRecord"
    /\ \E lag \in Lags, buffered \in BOOLEAN :
        LET a == advance_reader(reader, FullScan(file), buffered)
            r == FileStream_handle_record(time_tracker, elapsed, lag, channels,
                                          a.records[1])
            c == Summary_handle_record(schemas, channels, a.records[1], TRUE)
        IN /\ reader' = a.reader
           /\ schemas' = c.schemas
           /\ channels' = c.channels
           /\ sinks' = sinks \o c.built
           /\ IF r.wait.blocked > 0
              THEN /\ pc' = "sleeping"
                   /\ inflight' = <<r>>
                   /\ time_tracker' = r.started
                   /\ elapsed' = r.wait.actual
                   /\ UNCHANGED sent
              ELSE /\ pc' = IF r.ok THEN "pass" ELSE "panicked"
                   /\ time_tracker' = r.time_tracker
                   /\ elapsed' = r.elapsed
                   /\ sent' = sent \o r.out
                   /\ UNCHANGED inflight
    /\ UNCHANGED <<file, looping, done, loadResult, passes, resets, stopped>>

\* advance_reader, ReadAction::GetRecord, and FileStream::handle_record; a
\* message whose sleep_until blocks is left in thread::sleep
PassRecord ==
    /\ pc = "pass"
    /\ ~done
    /\ next_action(reader, FullScan(file)) = "GetRecord"
    /\ \E lag \in Lags, buffered \in BOOLEAN :
        LET a == advance_reader(reader, FullScan(file), buffered)
            r == FileStream_handle_record(time_tracker, elapsed, lag, channels,
                                          a.records[1])
        IN /\ reader' = a.reader
           /\ IF r.wait.blocked > 0
              THEN /\ pc' = "sleeping"
                   /\ inflight' = <<r>>
                   /\ time_tracker' = r.started
                   /\ elapsed' = r.wait.actual
                   /\ UNCHANGED sent
              ELSE /\ pc' = IF r.ok THEN "pass" ELSE "panicked"
                   /\ time_tracker' = r.time_tracker
                   /\ elapsed' = r.elapsed
                   /\ sent' = sent \o r.out
                   /\ UNCHANGED inflight
    /\ UNCHANGED <<file, looping, done, loadResult, schemas, channels, sinks,
                   passes, resets, stopped>>

\* mutant: a wait that ends with the flag set abandons the message
PassWake_Preempted ==
    /\ pc = "sleeping"
    /\ LET r == inflight[1]
       IN /\ pc' = IF r.ok THEN "pass" ELSE "panicked"
          /\ time_tracker' = IF done THEN time_tracker ELSE r.time_tracker
          /\ elapsed' = r.elapsed
          /\ sent' = IF done THEN sent ELSE sent \o r.out
          /\ inflight' = <<>>
    /\ UNCHANGED <<file, looping, done, loadResult, schemas, channels, reader, sinks,
                   passes, resets, stopped>>

\* thread::sleep returns: the rest of sleep_until and of handle_message
PassWake ==
    /\ pc = "sleeping"
    /\ LET r == inflight[1]
       IN /\ pc' = IF r.ok THEN "pass" ELSE "panicked"
          /\ time_tracker' = r.time_tracker
          /\ elapsed' = r.elapsed
          /\ sent' = sent \o r.out
          /\ inflight' = <<>>
    /\ UNCHANGED <<file, looping, done, loadResult, schemas, channels, reader, sinks,
                   passes, resets, stopped>>

\* mutant: a frame the decoder rejects is skipped
PassDecodeError_SkipFrame ==
    /\ pc = "pass"
    /\ ~done
    /\ next_action(reader, FullScan(file)) = "Err"
    /\ reader' = [pos |-> reader.pos + 1, need |-> TRUE]
    /\ UNCHANGED <<file, inflight, looping, pc, done, loadResult, schemas, channels,
                   time_tracker, elapsed, sinks, sent, passes, resets, stopped>>

\* `.context("read data").unwrap()` on a decode error
PassDecodeError ==
    /\ pc = "pass"
    /\ ~done
    /\ next_action(reader, FullScan(file)) = "Err"
    /\ pc' = "panicked"
    /\ UNCHANGED <<file, inflight, looping, done, loadResult, schemas, channels, reader,
                   time_tracker, elapsed, sinks, sent, passes, resets, stopped>>

PassExhausted ==
    /\ pc = "pass"
    /\ ~done
    /\ next_action(reader, FullScan(file)) = "None"
    /\ pc' = "pass_end"
    /\ UNCHANGED <<file, inflight, looping, done, loadResult, schemas, channels, reader,
                   time_tracker, elapsed, sinks, sent, passes, resets, stopped>>

\* mutant: the flag is not forced when looping is off
PassEnd_NoForce ==
    /\ pc = "pass_end"
    /\ IF ~looping
       THEN UNCHANGED <<done, resets>>
       ELSE resets' = resets + 1 /\ UNCHANGED done
    /\ pc' = "loop_head"
    /\ UNCHANGED <<file, inflight, looping, loadResult, schemas, channels, reader,
                   time_tracker, elapsed, sinks, sent, passes, stopped>>

\* mutant: a loop restart clears the flag
PassEnd_ClearFlag ==
    /\ pc = "pass_end"
    /\ IF ~looping
       THEN done' = TRUE /\ UNCHANGED resets
       ELSE resets' = resets + 1 /\ done' = FALSE
    /\ pc' = "loop_head"
    /\ UNCHANGED <<file, inflight, looping, loadResult, schemas, channels, reader,
                   time_tracker, elapsed, sinks, sent, passes, stopped>>

\* after the inner loop: force done, or clear_session; then back to the head
PassEnd ==
    /\ pc = "pass_end"
    /\ IF ~looping
       THEN done' = TRUE /\ UNCHANGED resets
       ELSE resets' = resets + 1 /\ UNCHANGED done
    /\ pc' = "loop_head"
    /\ UNCHANGED <<file, inflight, looping, loadResult, schemas, channels, reader,
                   time_tracker, elapsed, sinks, sent, passes, stopped>>

\* the SIGINT handler, or the Ctrl-C key seen by Controls::capture_keys
Cancel ==
    /\ pc \notin {"exited", "panicked"}
    /\ ~done
    /\ done' = TRUE
    /\ UNCHANGED <<file, inflight, looping, pc, loadResult, schemas, channels, reader,
                   time_tracker, elapsed, sinks, sent, passes, resets, stopped>>

Next ==
    \/ LoadFooter
    \/ LoadNeedMore
    \/ LoadRecord
    \/ LoadDecodeError
    \/ LoadReturn
    \/ MainExit
    \/ PassStart
    \/ PassCancelled
    \/ PassNeedMore
    \/ PassRecord
    \/ PassWake
    \/ PassDecodeError
    \/ PassExhausted
    \/ PassEnd
    \/ Cancel

Spec == Init /\ [][Next]_vars

\* the steps of the main thread: everything but the asynchronous Cancel
MainStep ==
    \/ LoadFooter
    \/ LoadNeedMore
    \/ LoadRecord
    \/ LoadDecodeError
    \/ LoadReturn
    \/ MainExit
    \/ PassStart
    \/ PassCancelled
    \/ PassNeedMore
    \/ PassRecord
    \/ PassWake
    \/ PassDecodeError
    \/ PassExhausted
    \/ PassEnd

\* the main thread keeps running: file reads return, thread::sleep returns
\* after its finite duration, and no step waits for another thread
FairSpec == Spec /\ WF_vars(MainStep)

(***************************************************************************)
(* Vocabulary of the properties.                                           *)
(***************************************************************************)
Range(seq) == {seq[i] : i \in 1..Len(seq)}

IsSchema(r) == r.type = "Schema"
IsChannel(r) == r.type = "Channel"
IsMessage(r) == r.type = "Message"

\* the distinct nonzero schema ids and the distinct channel ids of a summary
SchemaIdsOf(summary) == {r.id : r \in {x \in Range(summary) : IsSchema(x)}} \ {0}
ChannelIdsOf(summary) == {r.id : r \in {x \in Range(summary) : IsChannel(x)}}

\* the load is running, or has just failed: `reader` is the summary's reader
InLoad == pc = "load_summary" \/ (pc = "panicked" /\ passes = 0)

\* nothing of the summary section was dispatched or registered
NothingDispatched ==
    /\ reader = NewReader
    /\ schemas = EmptyMap
    /\ channels = EmptyMap
    /\ sinks = <<>>

IsTimeEvent(e) == e.kind = "time"
IsMsgEvent(e) == e.kind = "msg"
Broadcasts == SelectSeq(sent, IsTimeEvent)
Deliveries == SelectSeq(sent, IsMsgEvent)

\* the messages among the first n records of the full scan
MessagesRead(n) == SelectSeq(SubSeq(FullScan(file), 1, n), IsMessage)

\* the records of the pass whose handler has returned
Handled == IF pc = "sleeping" THEN reader.pos - 1 ELSE reader.pos

\* position in `sent` of the k-th delivery
RECURSIVE DeliveryIndex(_, _)
DeliveryIndex(k, from) ==
    IF from > Len(sent) THEN 0
    ELSE IF IsMsgEvent(sent[from])
         THEN IF k = 1 THEN from ELSE DeliveryIndex(k - 1, from + 1)
         ELSE DeliveryIndex(k, from + 1)

\* clock broadcasts issued after delivery a and before delivery b
BroadcastsBetween(a, b) ==
    Cardinality({i \in 1..Len(sent) :
        /\ IsTimeEvent(sent[i])
        /\ DeliveryIndex(a, 1) < i
        /\ i < DeliveryIndex(b, 1)})

(***************************************************************************)
(* C1  Catalog load is idempotent in size: when load_from_mcap returns a   *)
(* catalog for a summary whose Schema records carry N distinct nonzero ids *)
(* and whose Channel records carry M distinct ids, in any order and with   *)
(* any repetition, the catalog has N schema entries and M channel entries. *)
(***************************************************************************)
C1_CatalogSizes ==
    loadResult = "Ok" =>
        /\ Cardinality(DOMAIN schemas) = Cardinality(SchemaIdsOf(file.summary))
        /\ Cardinality(DOMAIN channels) = Cardinality(ChannelIdsOf(file.summary))

\* a catalog was returned for a summary that repeats an id
C1_Witness ==
    /\ loadResult = "Ok"
    /\ Len(file.summary) = 3
    /\ \A i \in 1..3 : IsSchema(file.summary[i]) \/ IsChannel(file.summary[i])
    /\ Cardinality(SchemaIdsOf(file.summary)) = 1
    /\ Cardinality(ChannelIdsOf(file.summary)) = 1

(***************************************************************************)
(* C2  First registration wins: a step of the load that dispatches a       *)
(* Schema or Channel record whose id is already in the catalog leaves both *)
(* maps and the registered sinks unchanged and is not an error, whatever   *)
(* name, topic or schema reference the record carries.                     *)
(***************************************************************************)
C2_Duplicate(record) ==
    \/ IsSchema(record) /\ record.id \in DOMAIN schemas
    \/ IsChannel(record) /\ record.id \in DOMAIN channels

C2_FirstWins ==
    [][(/\ pc = "load_summary"
        /\ reader'.pos = reader.pos + 1
        /\ C2_Duplicate(file.summary[reader.pos + 1]))
       => (/\ schemas' = schemas
           /\ channels' = channels
           /\ sinks' = sinks
           /\ loadResult' = "none"
           /\ pc' = "load_summary")]_vars

\* a record was just dispatched that repeats an earlier id with other contents
C2_Witness ==
    /\ pc = "load_summary"
    /\ reader.pos >= 2
    /\ \E j \in 1..(reader.pos - 1) :
        LET a == file.summary[j]
            b == file.summary[reader.pos]
        IN \/ IsSchema(a) /\ IsSchema(b) /\ a.id = b.id /\ a.name # b.name
           \/ IsChannel(a) /\ IsChannel(b) /\ a.id = b.id /\ a.topic # b.topic
                /\ a.schema_id # b.schema_id

(***************************************************************************)
(* C3  Bad trailing magic: when the last 8 bytes of the file differ from   *)
(* the magic marker, load fails with MalformedContainer, returns no        *)
(* catalog, and nothing of the summary section was read, cached or         *)
(* registered.                                                             *)
(***************************************************************************)
C3_LastBytesDiffer ==
    /\ Len(file.tail) >= 8
    /\ \E i \in 1..8 : file.tail[Len(file.tail) - 8 + i] # MAGIC[i]

C3_BadMagic ==
    (C3_LastBytesDiffer /\ pc # "load") =>
        /\ loadResult = "MalformedContainer"
        /\ pc = "panicked"
        /\ NothingDispatched

\* the load of a file whose last byte was corrupted has failed
C3_Witness ==
    /\ file.tail = TailOf(300, 44, [MAGIC EXCEPT ![8] = 11])
    /\ pc = "panicked"

(***************************************************************************)
(* C4  Missing index: when the trailing magic is valid and the first 8     *)
(* bytes of the 28-byte tail (the summary offset, little-endian) are all   *)
(* zero, load fails with MissingIndex, returns no catalog and dispatches   *)
(* no record.                                                              *)
(***************************************************************************)
C4_ZeroOffset ==
    /\ Len(file.tail) = FooterTailLen
    /\ SubSeq(file.tail, 21, 28) = MAGIC
    /\ \A i \in 1..8 : file.tail[i] = 0

C4_MissingIndex ==
    (C4_ZeroOffset /\ pc # "load") =>
        /\ loadResult = "MissingIndex"
        /\ pc = "panicked"
        /\ NothingDispatched

\* the load of a file with summary offset 0 and another footer field set
C4_Witness ==
    /\ file.tail = TailOf(0, 44, MAGIC)
    /\ pc = "panicked"

(***************************************************************************)
(* C5  Invalid catalog entry: the schema map never holds key 0; a load     *)
(* that dispatches a Schema record with id 0 fails with                    *)
(* InvalidCatalogEntry at that record, whatever preceded it; and no        *)
(* catalog is returned for a summary that holds such a record.             *)
(***************************************************************************)
C5_SchemaZero(r) == IsSchema(r) /\ r.id = 0

C5_InvalidCatalogEntry ==
    /\ 0 \notin DOMAIN schemas
    /\ (InLoad /\ reader.pos >= 1 /\ C5_SchemaZero(file.summary[reader.pos])) =>
            (loadResult = "InvalidCatalogEntry" /\ pc = "panicked")
    /\ loadResult = "Ok" => \A r \in Range(file.summary) : ~C5_SchemaZero(r)

\* a Schema record with id 0 was dispatched after a valid schema and channel
C5_Witness ==
    /\ InLoad
    /\ reader.pos = 3
    /\ C5_SchemaZero(file.summary[3])
    /\ DOMAIN schemas # {}
    /\ DOMAIN channels # {}

(***************************************************************************)
(* C6  A failed load prevents all subscriber traffic: a replay pass has    *)
(* started, a message was forwarded or a clock broadcast was issued only   *)
(* if load_from_mcap returned a catalog.                                   *)
(***************************************************************************)
C6_NoTrafficWithoutCatalog ==
    (passes > 0 \/ sent # <<>> \/ pc \in {"loop_head", "pass", "pass_end", "exited"})
        => loadResult = "Ok"

\* the load of a file that holds a message has failed
C6_Witness ==
    /\ loadResult \notin {"none", "Ok"}
    /\ \E r \in Range(FullScan(file)) : IsMessage(r)
    /\ pc = "panicked"
    /\ passes = 0
    /\ sent = <<>>

(***************************************************************************)
(* C7  Unknown channel tolerance: in a pass, the messages forwarded so far *)
(* are exactly the messages read so far whose channel_id is a key of the   *)
(* catalog, in file order (a message of an unknown channel is dropped and  *)
(* every later known one is still forwarded), and the pass ends in an      *)
(* error only at a frame the decoder rejects.                              *)
(***************************************************************************)
C7_Known(r) == r.channel_id \in DOMAIN channels

C7_Header(e) ==
    [channel_id |-> e.channel_id, sequence |-> e.sequence, log_time |-> e.log_time]

C7_UnknownChannelDropped ==
    passes > 0 =>
        /\ LET want == SelectSeq(MessagesRead(Handled), C7_Known)
           IN /\ Len(Deliveries) = Len(want)
              /\ \A i \in 1..Len(want) : C7_Header(Deliveries[i]) = C7_Header(want[i])
        /\ pc = "panicked" =>
            /\ reader.pos < Len(FullScan(file))
            /\ FullScan(file)[reader.pos + 1].type = "Bad"

\* a message of an unknown channel was read, and a later message delivered
C7_Witness ==
    /\ pc = "pass"
    /\ Len(file.data) >= 2
    /\ reader.pos = 2
    /\ IsMessage(file.data[1]) /\ ~C7_Known(file.data[1])
    /\ IsMessage(file.data[2]) /\ C7_Known(file.data[2])
    /\ Len(Deliveries) = 1

(***************************************************************************)
(* C8  Pacing lower bound: a message with log_time t is forwarded only     *)
(* when the wall-clock time since the tracker of the pass was created is   *)
(* at least (t - origin) minus the threshold of 1 microsecond, origin      *)
(* being the log_time of the first message of the pass.                    *)
(***************************************************************************)
C8_Origin == MessagesRead(Len(FullScan(file)))[1].log_time

C8_PacingLowerBound ==
    \A i \in 1..Len(sent) :
        IsMsgEvent(sent[i]) =>
            sent[i].at + SleepThresholdNs >= sent[i].log_time - C8_Origin

\* the messages at 0, 100 ms and 250 ms were delivered, the last two after a wait
C8_Witness ==
    /\ file = ScenarioFile
    /\ Len(Deliveries) = 3
    /\ Deliveries[2].at >= 100000000
    /\ Deliveries[3].at >= 250000000

(***************************************************************************)
(* C9  Notification cadence: within one pass, two consecutive clock        *)
(* broadcasts carry timestamps that differ by at least 1/60 s of recorded  *)
(* time, so the broadcast timestamps never decrease.                       *)
(***************************************************************************)
C9_NotificationCadence ==
    \A i \in 1..(Len(Broadcasts) - 1) :
        /\ Broadcasts[i + 1].ts - Broadcasts[i].ts >= NotifyIntervalNs
        /\ Broadcasts[i + 1].ts >= Broadcasts[i].ts

\* two broadcasts in a pass in which one message was handled without one
C9_Witness ==
    /\ Len(Broadcasts) = 2
    /\ Len(MessagesRead(reader.pos)) = 3

(***************************************************************************)
(* C10  Scenario (one schema, one channel, messages at 0, 100 ms and       *)
(* 250 ms): the catalog has sizes (1,1) and, as amended, exactly one clock *)
(* broadcast, with timestamp 250 ms, is issued between the delivery of     *)
(* message 2 and the delivery of message 3.                                *)
(***************************************************************************)
C10_ScenarioDone == file = ScenarioFile /\ Len(Deliveries) = 3

C10_CatalogSizes ==
    /\ Cardinality(DOMAIN schemas) = 1
    /\ Cardinality(DOMAIN channels) = 1

C10_ScenarioOneBroadcast ==
    C10_ScenarioDone =>
        /\ C10_CatalogSizes
        /\ BroadcastsBetween(2, 3) = 1
        /\ sent[DeliveryIndex(3, 1) - 1] = TimeEvent(250000000, Deliveries[3].at)

\* C10 as stated: at least 2 clock broadcasts between messages 2 and 3
C10_ScenarioAsStated ==
    C10_ScenarioDone =>
        /\ C10_CatalogSizes
        /\ BroadcastsBetween(2, 3) >= 2

\* the scenario file was replayed to its third delivery
C10_Witness == C10_ScenarioDone /\ pc = "pass_end"

(***************************************************************************)
(* C11  Cancellation: with looping enabled, once the flag is set in a pass *)
(* it stays set, the reader takes no further step (only a handler that is  *)
(* already sleeping completes), no pass is started, and the controller     *)
(* only moves on from the pass to its end, to the loop head and out.       *)
(***************************************************************************)
C11_Cancellation ==
    [][(looping /\ done /\ pc \in {"pass", "sleeping", "pass_end", "loop_head"})
       => (/\ done'
           /\ reader' = reader
           /\ passes' = passes
           /\ pc = "sleeping" => pc' \in {"sleeping", "pass"}
           /\ pc = "pass" => pc' \in {"pass", "pass_end"}
           /\ pc = "pass_end" => pc' \in {"pass_end", "loop_head"}
           /\ pc = "loop_head" => pc' \in {"loop_head", "exited"}
           /\ pc # "sleeping" => (sent' = sent /\ time_tracker' = time_tracker))]_vars

\* a looping run cancelled in the middle of its first pass has left the loop
C11_Witness ==
    /\ looping
    /\ done
    /\ pc = "exited"
    /\ passes = 1
    /\ reader.pos >= 1
    /\ reader.pos < Len(FullScan(file))

(***************************************************************************)
(* C12  With looping disabled exactly one replay pass is run: a loop head  *)
(* reached with the flag clear starts the first and only pass, the end of  *)
(* that pass forces the flag, and no further pass is ever started.         *)
(***************************************************************************)
C12_SinglePass ==
    [][~looping
       => (/\ passes' <= 1
           /\ (passes' = 1 /\ pc' \in {"loop_head", "exited"}) => done'
           /\ (pc = "loop_head" /\ ~done /\ pc' # pc) =>
                (passes = 0 /\ passes' = 1 /\ pc' = "pass")
           /\ (pc = "pass_end" /\ pc' # pc) =>
                (done' /\ pc' = "loop_head" /\ resets' = resets))]_vars

\* a run without looping has read its file to the end once and has exited
C12_Witness ==
    /\ ~looping
    /\ pc = "exited"
    /\ passes = 1
    /\ Len(file.data) >= 1
    /\ reader.pos = Len(FullScan(file))

(***************************************************************************)
(* C13  Session reset, as stated: no reset is ever issued with looping     *)
(* disabled, and with looping enabled the number of resets is the number   *)
(* of passes started minus one, during a pass and when the run has ended   *)
(* (every reset is followed by a new pass, none follows a cancelled pass). *)
(***************************************************************************)
C13_ResetsAsStated ==
    /\ ~looping => resets = 0
    /\ (looping /\ passes >= 1 /\ pc \in {"pass", "sleeping", "pass_end", "exited"})
            => resets = passes - 1

(***************************************************************************)
(* C14  Decode errors are fatal for the pass: the reader of a pass never   *)
(* gets past a frame the decoder rejects, and a pass that met one has      *)
(* ended the run in its first pass, without a retry and without            *)
(* dispatching a later record.                                             *)
(***************************************************************************)
C14_DecodeErrorFatal ==
    passes > 0 =>
        /\ \A k \in 1..reader.pos : FullScan(file)[k].type # "Bad"
        /\ pc = "panicked" => (passes = 1 /\ ~stopped)

\* a pass without looping stopped at a bad frame that other records follow
C14_Witness ==
    /\ ~looping
    /\ pc = "panicked"
    /\ passes = 1
    /\ reader.pos >= 1
    /\ reader.pos + 1 < Len(FullScan(file))
    /\ FullScan(file)[reader.pos + 1].type = "Bad"

(***************************************************************************)
(* C15  Catalog immutability: once load has returned, no step changes the  *)
(* schema map, the channel map or the set of registered sinks, whatever    *)
(* records the data section holds and however many passes run.             *)
(***************************************************************************)
C15_CatalogImmutable ==
    [][loadResult = "Ok"
       => (/\ schemas' = schemas
           /\ channels' = channels
           /\ sinks' = sinks
           /\ loadResult' = "Ok")]_vars

\* a second pass has read a Schema and a Channel record with an uncataloged id
C15_Witness ==
    /\ passes = 2
    /\ pc = "pass"
    /\ Len(file.data) = 2
    /\ reader.pos = 2
    /\ file.data[1] = SchemaRec(2, "b")
    /\ file.data[2] = ChannelRec(2, "t2", 0)
    /\ 2 \notin DOMAIN channels
    /\ 2 \notin DOMAIN schemas

(***************************************************************************)
(* C16  Channel schema resolution: a cached channel comes from the first   *)
(* Channel record of its id, and it has a schema exactly when a Schema     *)
(* record with that record's schema_id precedes it in the summary; a       *)
(* schema_id of 0 or of a schema that arrives later gives a channel        *)
(* without schema.                                                         *)
(***************************************************************************)
C16_IsChannelOf(r, c) == IsChannel(r) /\ r.id = c

C16_FirstRecord(c) ==
    CHOOSE k \in 1..Len(file.summary) :
        /\ C16_IsChannelOf(file.summary[k], c)
        /\ \A j \in 1..(k - 1) : ~C16_IsChannelOf(file.summary[j], c)

C16_SchemaPrecedes(k, sid) ==
    \E j \in 1..(k - 1) : IsSchema(file.summary[j]) /\ file.summary[j].id = sid

C16_SchemaResolution ==
    \A c \in DOMAIN channels :
        LET k == C16_FirstRecord(c)
            record == file.summary[k]
        IN /\ channels[c].topic = record.topic
           /\ (channels[c].schema # <<>>) <=> C16_SchemaPrecedes(k, record.schema_id)
           /\ channels[c].schema # <<>> =>
                (record.schema_id # 0 /\ channels[c].schema[1].id = record.schema_id)

\* a catalog was returned in which a channel has no schema although the
\* schema it names was cached later
C16_Witness ==
    /\ loadResult = "Ok"
    /\ \E c \in DOMAIN channels :
        /\ channels[c].schema = <<>>
        /\ file.summary[C16_FirstRecord(c)].schema_id \in DOMAIN schemas

(***************************************************************************)
(* C17  Time Tracker lifecycle: in every pass the tracker is absent until  *)
(* the first Message record is read, its origin is that message's          *)
(* log_time, and its current and last-notified times are determined by     *)
(* the messages handled in this pass alone.                                *)
(***************************************************************************)
RECURSIVE C17_LastNotified(_, _, _)
C17_LastNotified(msgs, i, last) ==
    IF i > Len(msgs) THEN last
    ELSE C17_LastNotified(msgs, i + 1,
            IF SatSub(msgs[i].log_time, last) >= NotifyIntervalNs
            THEN msgs[i].log_time ELSE last)

C17_TrackerLifecycle ==
    passes > 0 =>
        LET read == MessagesRead(reader.pos)
            handled == MessagesRead(Handled)
        IN /\ (time_tracker = <<>>) <=> (read = <<>>)
           /\ read # <<>> => time_tracker[1].offset_ns = read[1].log_time
           /\ handled # <<>> =>
                /\ time_tracker[1].now_ns = handled[Len(handled)].log_time
                /\ time_tracker[1].notify_last = C17_LastNotified(handled, 1, 0)

\* a second pass has created its tracker
C17_Witness ==
    /\ passes = 2
    /\ pc = "pass"
    /\ time_tracker # <<>>
    /\ time_tracker[1].offset_ns > 0
    /\ time_tracker[1].notify_last > 0

(***************************************************************************)
(* C18  sleep_until never blocks for a negative or spurious duration: for  *)
(* the message about to be handled, with target = max(0, t - origin) and   *)
(* actual the wall-clock time since the tracker was created, the handler   *)
(* blocks for exactly target - actual when that is at least 1 microsecond  *)
(* and otherwise does not block; a handler that is blocked was handed      *)
(* such a duration.                                                        *)
(***************************************************************************)
C18_Expected(t, origin, actual) ==
    LET target == IF t - origin > 0 THEN t - origin ELSE 0
    IN IF target - actual >= SleepThresholdNs THEN target - actual ELSE 0

C18_NextIsMessage ==
    /\ pc = "pass"
    /\ next_action(reader, FullScan(file)) = "GetRecord"
    /\ IsMessage(FullScan(file)[reader.pos + 1])

C18_NoSpuriousBlock ==
    /\ C18_NextIsMessage =>
        \A lag \in Lags :
            LET header == FullScan(file)[reader.pos + 1]
                actual == IF time_tracker = <<>> THEN lag ELSE elapsed + lag
                h == handle_message(time_tracker, elapsed, lag, channels, header)
            IN /\ h.wait.blocked = C18_Expected(header.log_time, C8_Origin, actual)
               /\ h.wait.blocked >= 0
               /\ h.elapsed = actual + h.wait.blocked
    /\ pc = "sleeping" =>
        /\ inflight[1].wait.blocked >= SleepThresholdNs
        /\ inflight[1].wait.blocked =
              FullScan(file)[reader.pos].log_time - C8_Origin - elapsed

\* a message earlier than the origin was handled without a block
C18_Witness ==
    /\ pc = "pass"
    /\ Len(file.data) = 2
    /\ reader.pos = 2
    /\ IsMessage(file.data[1]) /\ IsMessage(file.data[2])
    /\ file.data[2].log_time < file.data[1].log_time
    /\ elapsed <= 60000000

(***************************************************************************)
(* C19  Frame Decoder step contract: a call of advance_reader that returns *)
(* true did exactly one thing, it handed bytes to the decoder or it handed *)
(* one record, the next of the stream, to the handler; a call that returns *)
(* false did neither and left the reader, which is at the end of the       *)
(* stream, as it was; no record is handed over on a byte-request step.     *)
(***************************************************************************)
C19_Stream == IF pc = "load_summary" THEN file.summary ELSE FullScan(file)

C20_InFlight == FullScan(file)[reader.pos]

C20_NoPreemption ==
    [][(/\ (pc = "sleeping" /\ done /\ pc' # "sleeping") =>
            /\ pc' = "pass"
            /\ reader' = reader
            /\ elapsed' = C20_InFlight.log_time - C8_Origin
            /\ Len(sent') >= Len(sent)
            /\ SubSeq(sent', 1, Len(sent)) = sent
            /\ C7_Known(C20_InFlight) =>
                 /\ Len(sent') > Len(sent)
                 /\ sent'[Len(sent')] = MsgEvent(C20_InFlight, elapsed')
        /\ (pc = "pass" /\ done) => (reader' = reader /\ sent' = sent))]_vars

\* the flag was set while the handler of a known channel's message sleeps
C20_Witness ==
    /\ pc = "sleeping"
    /\ done
    /\ C7_Known(C20_InFlight)

(***************************************************************************)
(* C21  Per-message ordering: what the server has received in a pass is,   *)
(* for each message handled and in file order, at most one clock broadcast *)
(* carrying that message's log_time followed by the message itself when    *)
(* its channel is known; a broadcast comes only from a Message record,     *)
(* after that message's wait, and nothing is received out of time order.   *)
(***************************************************************************)
C21_Shape(e) ==
    IF IsTimeEvent(e) THEN [kind |-> "time", ts |-> e.ts]
    ELSE [kind |-> "msg", channel_id |-> e.channel_id, sequence |-> e.sequence,
          log_time |-> e.log_time]

RECURSIVE C21_Trace(_, _, _)
C21_Trace(msgs, i, last) ==
    IF i > Len(msgs) THEN <<>>
    ELSE LET m == msgs[i]
             due == SatSub(m.log_time, last) >= NotifyIntervalNs
         IN (IF due THEN <<[kind |-> "time", ts |-> m.log_time]>> ELSE <<>>)
            \o (IF C7_Known(m)
                THEN <<[kind |-> "msg", channel_id |-> m.channel_id,
                        sequence |-> m.sequence, log_time |-> m.log_time]>>
                ELSE <<>>)
            \o C21_Trace(msgs, i + 1, IF due THEN m.log_time ELSE last)

C21_MessageOrdering ==
    passes > 0 =>
        LET want == C21_Trace(MessagesRead(Handled), 1, 0)
        IN /\ Len(sent) = Len(want)
           /\ \A i \in 1..Len(sent) : C21_Shape(sent[i]) = want[i]
           /\ \A i \in 1..Len(sent) :
                IsTimeEvent(sent[i]) =>
                    sent[i].at + SleepThresholdNs >= sent[i].ts - C8_Origin
           /\ \A i \in 1..(Len(sent) - 1) : sent[i].at <= sent[i + 1].at

\* a broadcast was received after a wait, directly before its message
C21_Witness ==
    \E i \in 1..(Len(sent) - 1) :
        /\ IsTimeEvent(sent[i])
        /\ IsMsgEvent(sent[i + 1])
        /\ sent[i + 1].log_time = sent[i].ts
        /\ sent[i + 1].at = sent[i].at
        /\ sent[i].at >= 100000000

(***************************************************************************)
(* C22  Every pass restarts from offset zero with a fresh reader: a pass   *)
(* that has run to natural completion has forwarded the known-channel      *)
(* messages of the whole file, each once and in file order; this sequence  *)
(* depends on the file and the catalog only, so any two completed passes   *)
(* forward the same sequence.                                              *)
(***************************************************************************)
C22_FileOrder == SelectSeq(MessagesRead(Len(FullScan(file))), C7_Known)

C22_PassComplete ==
    /\ passes >= 1
    /\ pc \in {"pass_end", "loop_head", "exited"}
    /\ reader.pos = Len(FullScan(file))

C22_SamePasses ==
    C22_PassComplete =>
        /\ Len(Deliveries) = Len(C22_FileOrder)
        /\ \A i \in 1..Len(C22_FileOrder) :
            C7_Header(Deliveries[i]) = C7_Header(C22_FileOrder[i])

\* the second pass has completed and has forwarded two messages
C22_Witness ==
    /\ passes = 2
    /\ pc = "pass_end"
    /\ reader.pos = Len(FullScan(file))
    /\ Len(Deliveries) = 2

(***************************************************************************)
(* C23  The last-notified time of a fresh tracker is 0: in every pass      *)
(* there is a broadcast exactly when a message with log_time of at least   *)
(* 16,666,666 ns has been handled, the first broadcast carries the         *)
(* log_time of the first such message, and a first message of the pass     *)
(* with such a log_time is itself preceded by a broadcast.                 *)
(***************************************************************************)
C23_Due(m) == m.log_time >= NotifyIntervalNs

C23_FirstBroadcast ==
    passes > 0 =>
        LET handled == MessagesRead(Handled)
            due == SelectSeq(handled, C23_Due)
        IN /\ (Broadcasts = <<>>) <=> (due = <<>>)
           /\ due # <<>> => Broadcasts[1].ts = due[1].log_time
           /\ \A i \in 1..Len(Broadcasts) : Broadcasts[i].ts >= NotifyIntervalNs
           /\ (handled # <<>> /\ C23_Due(handled[1])) =>
                /\ sent # <<>>
                /\ IsTimeEvent(sent[1])
                /\ sent[1].ts = handled[1].log_time

\* the second pass has broadcast the log_time of its first message
C23_Witness ==
    /\ passes = 2
    /\ Handled >= 1
    /\ IsMessage(FullScan(file)[1])
    /\ C23_Due(FullScan(file)[1])
    /\ sent # <<>>
    /\ IsTimeEvent(sent[1])
    /\ sent[1].ts = FullScan(file)[1].log_time

(***************************************************************************)
(* C24  Dropped messages still drive the clock: handling a Message whose   *)
(* channel is not in the catalog creates or updates the tracker, waits and *)
(* broadcasts exactly as handling the same message on a known channel      *)
(* would; only the forward is missing.  A pass that has handled dropped    *)
(* messages only has a tracker anchored at the first of them.              *)
(***************************************************************************)
C24_NextDropped ==
    /\ pc = "pass"
    /\ next_action(reader, FullScan(file)) = "GetRecord"
    /\ IsMessage(FullScan(file)[reader.pos + 1])
    /\ ~C7_Known(FullScan(file)[reader.pos + 1])

C24_DroppedDriveClock ==
    /\ C24_NextDropped =>
        \A lag \in Lags :
            LET header == FullScan(file)[reader.pos + 1]
                known == channels @@
                            (header.channel_id :> [topic |-> "t1", schema |-> <<>>])
                h == handle_message(time_tracker, elapsed, lag, channels, header)
                k == handle_message(time_tracker, elapsed, lag, known, header)
            IN /\ h.time_tracker = k.time_tracker
               /\ h.elapsed = k.elapsed
               /\ h.wait = k.wait
               /\ h.started = k.started
               /\ k.out = h.out \o <<MsgEvent(header, h.elapsed)>>
               /\ h.time_tracker # <<>>
               /\ h.time_tracker[1].now_ns = header.log_time
               /\ time_tracker = <<>> =>
                    h.time_tracker[1].offset_ns = header.log_time
    /\ LET handled == MessagesRead(Handled)
       IN (passes > 0 /\ handled # <<>> /\ \A i \in 1..Len(handled) : ~C7_Known(handled[i]))
            => /\ time_tracker # <<>>
               /\ time_tracker[1].offset_ns = handled[1].log_time
               /\ time_tracker[1].now_ns = handled[Len(handled)].log_time
               /\ Deliveries = <<>>

\* the first message of a pass was dropped; it created the tracker and
\* caused a broadcast
C24_Witness ==
    /\ pc = "pass"
    /\ reader.pos = 1
    /\ Len(file.data) >= 1
    /\ IsMessage(file.data[1])
    /\ ~C7_Known(file.data[1])
    /\ time_tracker # <<>>
    /\ time_tracker[1].offset_ns = file.data[1].log_time
    /\ Len(sent) = 1
    /\ IsTimeEvent(sent[1])

(***************************************************************************)
(* C25  Termination: with looping disabled and a well-formed file the      *)
(* controller eventually leaves its loop and stops the server, with or     *)
(* without a cancellation; with looping enabled it does so once the flag   *)
(* is set, and with a well-formed file it stops for no other reason; the   *)
(* server is stopped only with the flag set, and the flag, once set, is    *)
(* never cleared.  (A channel the publishing side refuses to build fails   *)
(* the load whatever the file holds.)                                      *)
(***************************************************************************)
C25_WellFormed ==
    /\ FooterCheck(file.tail) = "Ok"
    /\ \A k \in 1..Len(FullScan(file)) : FullScan(file)[k].type # "Bad"
    /\ \A k \in 1..Len(file.summary) :
        IsSchema(file.summary[k]) => file.summary[k].id # 0

C25_Stopped == pc = "exited" /\ stopped

C25_Termination ==
    /\ (~looping /\ C25_WellFormed)
            ~> (C25_Stopped \/ loadResult = "ChannelBuildError")
    /\ (looping /\ done) ~> (C25_Stopped \/ pc = "panicked")
    /\ [](pc = "exited" => (done /\ stopped))
    /\ []((looping /\ C25_WellFormed /\ pc = "panicked")
            => loadResult = "ChannelBuildError")
    /\ [][done => done']_vars

\* a looping run of a well-formed file was cancelled in its second pass and
\* has stopped the server
C25_Witness ==
    /\ looping
    /\ C25_WellFormed
    /\ passes = 2
    /\ reader.pos >= 1
    /\ done
    /\ C25_Stopped

====
